---------------------------- MODULE Spec2Model ----------------------------
(***************************************************************************)
(* Account lifecycle and credential core of MyFuture_AI                    *)
(* (backend/app/services/auth_service.py and its HTTP endpoints in         *)
(* backend/app/api/auth.py).                                               *)
(*                                                                         *)
(* Strings are sequences of one-character strings over a small alphabet,   *)
(* so that lower(), strip(), the regular expressions and slicing are       *)
(* computed as the code computes them.  Python's None is the empty         *)
(* sequence for a string-valued column and NullTime for a timestamp.       *)
(* Time is counted in seconds.                                             *)
(***************************************************************************)
EXTENDS Integers, Sequences, FiniteSets, TLC

VARIABLES
    users,   \* the rows of table "users" (models/user.py)
    now,     \* datetime.now(timezone.utc), in seconds
    hist,    \* history: which raw tokens were issued, tried and consumed
    calls,   \* concurrent requests: where each one stands
    eval,    \* a helper function under evaluation: its argument and value
    records  \* the rows of tables "orientations" and "results"

vars == <<users, now, hist, calls, eval, records>>

---------------------------------------------------------------------------
(* Bounds of the model *)

MaxUsers == 2      \* rows the table may hold
MaxTokens == 3     \* raw tokens minted in one behaviour
MaxProcs == 2      \* concurrent requests
MaxRecords == 2    \* orientation and result rows in one behaviour
MaxFill == 70      \* longest run of one letter in a password tried
MaxWide == 18      \* longest run of four-byte characters in one

(* Configuration (core/config.py), defaults *)

email_verification_token_hours == 24
password_reset_token_minutes == 30
password_reset_request_cooldown_seconds == 60
email_verification_secret_key == <<>>
password_reset_secret_key == <<>>
jwt_secret_key == <<"C","H","A","N","G","E","_","M","E">>
jwt_access_token_minutes == 30

_BCRYPT_MAX_PASSWORD_BYTES == 72
DefaultUsernameAttempts == 20
UsernameMinLen == 3
UsernameMaxLen == 30

AccessLifetime == jwt_access_token_minutes * 60
VerificationLifetime == email_verification_token_hours * 3600
ResetLifetime == password_reset_token_minutes * 60
Cooldown == password_reset_request_cooldown_seconds

---------------------------------------------------------------------------
(* Null values *)

None == <<>>
NullTime == 0 - 1

---------------------------------------------------------------------------
(* Characters *)

UpperChars == {"A", "B", "C", "E", "G", "H", "M", "N"}
LowerChars ==
    {"a", "b", "c", "d", "e", "f", "g", "h", "m", "n", "o", "r", "s", "u", "x"}
DigitChars == {"0", "1", "2"}
WideChars == {"U+1F600"}     \* one code point, four bytes in UTF-8
SpaceChars == {" "}

IsAlnum(c) == c \in UpperChars \cup LowerChars \cup DigitChars
IsWordChar(c) == IsAlnum(c) \/ c = "_"

LowerChar(c) ==
    CASE c = "A" -> "a" [] c = "B" -> "b" [] c = "C" -> "c"
      [] c = "E" -> "e" [] c = "G" -> "g" [] c = "H" -> "h"
      [] c = "M" -> "m" [] c = "N" -> "n" [] OTHER -> c

\* str.lower()
lower(s) == [i \in 1..Len(s) |-> LowerChar(s[i])]

\* a slice that does not cut
Prefix_Whole(s, n) == s

\* s[:n]
Prefix(s, n) == SubSeq(s, 1, IF n < Len(s) THEN n ELSE Len(s))

RECURSIVE LStrip(_, _)
LStrip(s, drop) ==
    IF s # <<>> /\ Head(s) \in drop THEN LStrip(Tail(s), drop) ELSE s

RECURSIVE RStrip(_, _)
RStrip(s, drop) ==
    IF s # <<>> /\ s[Len(s)] \in drop
    THEN RStrip(SubSeq(s, 1, Len(s) - 1), drop) ELSE s

\* str.strip() and str.strip(chars)
strip(s) == RStrip(LStrip(s, SpaceChars), SpaceChars)
strip_chars(s, drop) == RStrip(LStrip(s, drop), drop)

\* len(s.encode("utf-8"))
Utf8Len(s) ==
    Cardinality({i \in 1..Len(s) : s[i] \notin WideChars})
    + 4 * Cardinality({i \in 1..Len(s) : s[i] \in WideChars})

\* _USERNAME_RE.fullmatch(s) is not None
_USERNAME_RE(s) ==
    /\ Len(s) >= UsernameMinLen
    /\ Len(s) <= UsernameMaxLen
    /\ \A i \in 1..Len(s) : IsWordChar(s[i])

---------------------------------------------------------------------------
(* core/security.py *)

PasswordTooLong == "Password is too long for bcrypt"
PasswordTooShort == "Password must be at least 8 characters"
PasswordNoUpper == "Password must contain at least one uppercase letter"
PasswordNoLower == "Password must contain at least one lowercase letter"
PasswordNoDigit == "Password must contain at least one number"
PasswordNoSpecial == "Password must contain at least one special character"

PolicyErrors ==
    {PasswordTooLong, PasswordTooShort, PasswordNoUpper, PasswordNoLower,
     PasswordNoDigit, PasswordNoSpecial}

\* a policy that holds the number of characters against the 72-byte limit
validate_password_strength_CountsCharacters(password) ==
    IF Len(password) > _BCRYPT_MAX_PASSWORD_BYTES THEN PasswordTooLong
    ELSE IF Len(password) < 8 THEN PasswordTooShort
    ELSE IF \A i \in 1..Len(password) : password[i] \notin UpperChars
        THEN PasswordNoUpper
    ELSE IF \A i \in 1..Len(password) : password[i] \notin LowerChars
        THEN PasswordNoLower
    ELSE IF \A i \in 1..Len(password) : password[i] \notin DigitChars
        THEN PasswordNoDigit
    ELSE IF \A i \in 1..Len(password) : IsAlnum(password[i])
        THEN PasswordNoSpecial
    ELSE "ok"

\* "ok", or the message of the ValueError raised
validate_password_strength(password) ==
    IF Utf8Len(password) > _BCRYPT_MAX_PASSWORD_BYTES THEN PasswordTooLong
    ELSE IF Len(password) < 8 THEN PasswordTooShort
    ELSE IF \A i \in 1..Len(password) : password[i] \notin UpperChars
        THEN PasswordNoUpper
    ELSE IF \A i \in 1..Len(password) : password[i] \notin LowerChars
        THEN PasswordNoLower
    ELSE IF \A i \in 1..Len(password) : password[i] \notin DigitChars
        THEN PasswordNoDigit
    ELSE IF \A i \in 1..Len(password) : IsAlnum(password[i])
        THEN PasswordNoSpecial
    ELSE "ok"

\* bcrypt.hashpw: the stored string carries the scheme and determines the
\* password it was derived from (the salt is left out)
hash_password(password) == <<"$2b$12$", password>>

\* a check that does not look at the scheme of the stored string
verify_password_AnyScheme(password, password_hash) ==
    /\ Len(password_hash) = 2
    /\ password_hash[2] = password

\* bcrypt.checkpw, False on any exception
verify_password(password, password_hash) ==
    /\ Len(password_hash) = 2
    /\ password_hash[1] = "$2b$12$"
    /\ password_hash[2] = password

\* HMAC-SHA256 keyed by the purpose secret, falling back to the JWT secret
hash_email_verification_token(token) ==
    <<IF email_verification_secret_key # <<>>
      THEN email_verification_secret_key ELSE jwt_secret_key, token>>

\* a digest that does not depend on the raw token
hash_password_reset_token_IgnoresToken(token) ==
    <<IF password_reset_secret_key # <<>>
      THEN password_reset_secret_key ELSE jwt_secret_key, 0>>

hash_password_reset_token(token) ==
    <<IF password_reset_secret_key # <<>>
      THEN password_reset_secret_key ELSE jwt_secret_key, token>>

---------------------------------------------------------------------------
(* The table "users" (models/user.py) *)

\* a table without the unique constraints
UniqueViolation_None(us, row) == FALSE

\* unique=True on email and on username; NULL usernames never collide
UniqueViolation(us, row) ==
    \E u \in us :
        \/ u.id = row.id
        \/ u.email = row.email
        \/ (row.username # None /\ u.username = row.username)

\* select(User).where(User.<col> == val): the rows found
ByEmail(us, email) == {u \in us : u.email = email}
ByUsername(us, username) == {u \in us : u.username = username}
ByVerificationHash(us, h) ==
    {u \in us : u.email_verification_token_hash = h}
\* a lookup that matches the digest against either token column
ByResetHash_AnyTokenColumn(us, h) ==
    {u \in us : \/ u.password_reset_token_hash = h
                \/ u.email_verification_token_hash = h}
ByResetHash(us, h) == {u \in us : u.password_reset_token_hash = h}

\* str(uuid.uuid4()): an id no row has
NewId(us) == Cardinality(us) + 1

\* session.commit() of an update: the row with that id is replaced
Update(us, row) == {IF u.id = row.id THEN row ELSE u : u \in us}

---------------------------------------------------------------------------
(* Username Allocator (auth_service.py) *)

\* values secrets.token_hex(3) and secrets.token_hex(2) take in the model
TokenHex3 == {<<"0","0","0","0","0","0">>, <<"0","0","0","0","0","1">>}
TokenHex2 == {<<"0","0","0","0">>, <<"0","0","0","1">>}

UserPrefix == <<"u","s","e","r","_">>

\* a loop that takes whatever it drew
CandidateFree_Unchecked(us, candidate) == TRUE

\* lines 75-76: `existing is None`
CandidateFree(us, candidate) == ByUsername(us, candidate) = {}

\* the loop of _generate_default_username with `attempts` rounds left: every
\* outcome the random draws allow; ok = FALSE is the ValueError
RECURSIVE GenerateFrom(_, _)
GenerateFrom(us, attempts) ==
    IF attempts = 0 THEN {[ok |-> FALSE, name |-> None]}
    ELSE LET cands == {UserPrefix \o h : h \in TokenHex3}
             free == {c \in cands : ByUsername(us, c) = {}}
         IN  {[ok |-> TRUE, name |-> c] : c \in free}
             \cup (IF free # cands THEN GenerateFrom(us, attempts - 1) ELSE {})

_generate_default_username(us) == GenerateFrom(us, DefaultUsernameAttempts)

RECURSIVE SubNonAlnum(_)
\* re.sub(r"[^A-Za-z0-9]+", "_", s)
SubNonAlnum(s) ==
    IF s = <<>> THEN <<>>
    ELSE IF IsAlnum(Head(s)) THEN <<Head(s)>> \o SubNonAlnum(Tail(s))
    ELSE LET rest == Tail(s)
             k == CHOOSE j \in 0..Len(rest) :
                    /\ \A i \in 1..j : ~IsAlnum(rest[i])
                    /\ (j = Len(rest) \/ IsAlnum(rest[j + 1]))
         IN  <<"_">> \o SubNonAlnum(SubSeq(rest, k + 1, Len(rest)))

\* every value _derive_username_from_name can return (None included)
_derive_username_from_name(us, name) ==
    IF name = None THEN {None}
    ELSE
      LET cleaned == strip_chars(SubNonAlnum(strip(name)), {"_"})
          candidate == Prefix(cleaned, 30)
      IN  IF cleaned = <<>> THEN {None}
          ELSE IF ~_USERNAME_RE(candidate) THEN {None}
          ELSE IF ByUsername(us, candidate) = {} THEN {candidate}
          ELSE { LET cut == 30 - (1 + Len(suffix))
                     base == Prefix(candidate, IF cut > 0 THEN cut ELSE 0)
                     candidate2 == IF base # <<>>
                                   THEN base \o <<"_">> \o suffix
                                   ELSE UserPrefix \o suffix
                 IN  IF ~_USERNAME_RE(candidate2) THEN None
                     ELSE IF ByUsername(us, candidate2) = {} THEN candidate2
                     ELSE None
                 : suffix \in TokenHex2 }

\* `_derive_username_from_name(name) or _generate_default_username()`
AllocateUsername(us, name) ==
    LET derived == _derive_username_from_name(us, name)
    IN  {[ok |-> TRUE, name |-> d] : d \in derived \ {None}}
        \cup (IF None \in derived THEN _generate_default_username(us) ELSE {})

---------------------------------------------------------------------------
(* Outcomes.  A service method is an operator from the table, the clock    *)
(* and the arguments to the set of outcomes [res, ret, users] the call can *)
(* have: res is "ok" or the message of the exception raised, ret the raw   *)
(* token returned (0 when none), users the table after the call.           *)

EmailTaken == "Email already registered"
UsernameInvalid ==
    "Username must be 3-30 characters (letters, numbers, underscore only)"
UsernameTaken == "Username already taken"
AllocationExhausted == "Unable to generate username. Please try again."
InvalidCredentials == "Invalid credentials"
InvalidOrExpiredToken == "Invalid or expired token"
GoogleNotConfigured == "Google login is not configured"
InvalidGoogleToken == "Invalid Google token"
GoogleEmailNotVerified == "Google email is not verified"
\* sqlalchemy.exc.IntegrityError out of session.commit(): not a ValueError
IntegrityError == "IntegrityError"

Raise(us, msg) == [res |-> msg, ret |-> 0, users |-> us]
Return(us, raw_token) == [res |-> "ok", ret |-> raw_token, users |-> us]

---------------------------------------------------------------------------
(* Registration Flow: AuthService.register *)

\* a register that leaves the email to the unique constraint
register_precheck_SkipsEmail(us, email, password, username) ==
    IF validate_password_strength(password) # "ok"
    THEN {[res |-> validate_password_strength(password), username |-> None]}
    ELSE LET normalized_username == strip(username)
         IN  IF normalized_username # None
             THEN IF ~_USERNAME_RE(normalized_username)
                  THEN {[res |-> UsernameInvalid, username |-> None]}
                  ELSE IF ByUsername(us, normalized_username) # {}
                  THEN {[res |-> UsernameTaken, username |-> None]}
                  ELSE {[res |-> "ok", username |-> normalized_username]}
             ELSE {[res |-> IF g.ok THEN "ok" ELSE AllocationExhausted,
                    username |-> g.name]
                   : g \in _generate_default_username(us)}

\* lines 33-47: the checks before anything is written; every outcome, as
\* [res, username]
register_precheck(us, email, password, username) ==
    IF ByEmail(us, email) # {} THEN {[res |-> EmailTaken, username |-> None]}
    ELSE IF validate_password_strength(password) # "ok"
        THEN {[res |-> validate_password_strength(password),
               username |-> None]}
    ELSE LET normalized_username == strip(username)
         IN  IF normalized_username # None
             THEN IF ~_USERNAME_RE(normalized_username)
                  THEN {[res |-> UsernameInvalid, username |-> None]}
                  ELSE IF ByUsername(us, normalized_username) # {}
                  THEN {[res |-> UsernameTaken, username |-> None]}
                  ELSE {[res |-> "ok", username |-> normalized_username]}
             ELSE {[res |-> IF g.ok THEN "ok" ELSE AllocationExhausted,
                    username |-> g.name]
                   : g \in _generate_default_username(us)}

\* a row whose verification token is due the moment it is issued
register_row_NoLifetime(us, email, password, username, raw_token, t) ==
    [id |-> NewId(us),
     username |-> username,
     email |-> email,
     password_hash |-> hash_password(password),
     auth_provider |-> "password",
     is_verified |-> FALSE,
     verified_at |-> NullTime,
     email_verification_token_hash |-> hash_email_verification_token(raw_token),
     email_verification_expires_at |-> t,
     password_reset_token_hash |-> None,
     password_reset_expires_at |-> NullTime,
     password_reset_requested_at |-> NullTime]

\* lines 49-63: the row register builds
register_row(us, email, password, username, raw_token, t) ==
    [id |-> NewId(us),
     username |-> username,
     email |-> email,
     password_hash |-> hash_password(password),
     auth_provider |-> "password",
     is_verified |-> FALSE,
     verified_at |-> NullTime,
     email_verification_token_hash |-> hash_email_verification_token(raw_token),
     email_verification_expires_at |-> t + VerificationLifetime,
     password_reset_token_hash |-> None,
     password_reset_expires_at |-> NullTime,
     password_reset_requested_at |-> NullTime]

\* db.add(user); db.commit() of a new row under the unique constraints
Insert(us, row, raw_token) ==
    IF UniqueViolation(us, row) THEN Raise(us, IntegrityError)
    ELSE Return(us \cup {row}, raw_token)

\* lines 49-67
register_write(us, t, email, password, username, raw_token) ==
    Insert(us, register_row(us, email, password, username, raw_token, t),
           raw_token)

register(us, t, email, password, username, raw_token) ==
    {IF pre.res # "ok" THEN Raise(us, pre.res)
     ELSE register_write(us, t, email, password, pre.username, raw_token)
     : pre \in register_precheck(us, email, password, username)}

\* an endpoint that passes the email on as typed
api_register_AsTyped(us, t, email, password, username, raw_token) ==
    register(us, t, email, password, username, raw_token)

\* api/auth.py register: the email is lower-cased
api_register(us, t, email, password, username, raw_token) ==
    register(us, t, lower(email), password, username, raw_token)

---------------------------------------------------------------------------
(* Login (password): AuthService.login *)

\* a login that tells an unknown email from a wrong password
login_NamesUnknownEmail(us, email, password) ==
    IF ByEmail(us, email) = {} THEN {Raise(us, "No account for this email")}
    ELSE {IF user.password_hash = None THEN Raise(us, InvalidCredentials)
          ELSE IF ~verify_password(password, user.password_hash)
               THEN Raise(us, InvalidCredentials)
          ELSE Return(us, 0) : user \in ByEmail(us, email)}

\* lines 80-86
login(us, email, password) ==
    IF ByEmail(us, email) = {} THEN {Raise(us, InvalidCredentials)}
    ELSE {IF user.password_hash = None THEN Raise(us, InvalidCredentials)
          ELSE IF ~verify_password(password, user.password_hash)
               THEN Raise(us, InvalidCredentials)
          ELSE Return(us, 0) : user \in ByEmail(us, email)}

\* api/auth.py login
api_login(us, email, password) == login(us, lower(email), password)

---------------------------------------------------------------------------
(* Verification Flow: AuthService.verify_email *)

\* line 209
VerificationExpired(expires_at, t) == expires_at < t

\* lines 196-210: "ok" or the failure, for the row found
verify_email_check(user, t) ==
    IF user.is_verified THEN InvalidOrExpiredToken
    ELSE IF user.email_verification_expires_at = NullTime
        THEN InvalidOrExpiredToken
    ELSE IF VerificationExpired(user.email_verification_expires_at, t)
        THEN InvalidOrExpiredToken
    ELSE "ok"

\* a verify_email that clears the token but forgets the flag
verify_email_apply_ForgetsFlag(user, t) ==
    [user EXCEPT !.email_verification_token_hash = None,
                 !.email_verification_expires_at = NullTime]

\* lines 212-215
verify_email_apply(user, t) ==
    [user EXCEPT !.is_verified = TRUE,
                 !.verified_at = t,
                 !.email_verification_token_hash = None,
                 !.email_verification_expires_at = NullTime]

verify_email(us, t, token) ==
    LET found == ByVerificationHash(us, hash_email_verification_token(token))
    IN  IF found = {} THEN {Raise(us, InvalidOrExpiredToken)}
        ELSE {IF verify_email_check(user, t) # "ok"
              THEN Raise(us, verify_email_check(user, t))
              ELSE Return(Update(us, verify_email_apply(user, t)), 0)
              : user \in found}

---------------------------------------------------------------------------
(* Password Reset Request: AuthService.request_password_reset *)

\* a cooldown that still holds at exactly cooldown seconds
CooldownActive_Inclusive(requested_at, t) ==
    requested_at # NullTime /\ t - requested_at <= Cooldown

\* lines 236-243
CooldownActive(requested_at, t) ==
    requested_at # NullTime /\ t - requested_at < Cooldown

\* lines 232-243: TRUE when the call returns None for the row found
request_password_reset_refused(user, t) ==
    \/ user.auth_provider # "password"
    \/ user.password_hash = None
    \/ CooldownActive(user.password_reset_requested_at, t)

\* a request that stores the hash without an expiry
request_password_reset_apply_NoExpiry(user, raw_token, t) ==
    [user EXCEPT !.password_reset_token_hash =
                     hash_password_reset_token(raw_token),
                 !.password_reset_requested_at = t]

\* lines 245-248
request_password_reset_apply(user, raw_token, t) ==
    [user EXCEPT !.password_reset_token_hash =
                     hash_password_reset_token(raw_token),
                 !.password_reset_expires_at = t + ResetLifetime,
                 !.password_reset_requested_at = t]

\* ret = 0 is the None returned
request_password_reset(us, t, email, raw_token) ==
    IF ByEmail(us, email) = {} THEN {Return(us, 0)}
    ELSE {IF request_password_reset_refused(user, t) THEN Return(us, 0)
          ELSE Return(Update(us,
                   request_password_reset_apply(user, raw_token, t)),
                   raw_token)
          : user \in ByEmail(us, email)}

\* api/auth.py forgot_password
api_forgot_password(us, t, email, raw_token) ==
    request_password_reset(us, t, lower(email), raw_token)

\* api/auth.py line 106
neutral == "If an account exists, a reset link has been sent."

\* an endpoint that says so when a link went out
forgot_password_response_TellsIssued(token) ==
    [status |-> 200,
     message |-> IF token # 0 THEN "A reset link has been sent." ELSE neutral]

\* api/auth.py line 119: the body returned, whatever the token
forgot_password_response(token) == [status |-> 200, message |-> neutral]

\* api/auth.py forgot_password, whole: the response to the caller, the mail
\* handed to the background task (None when no token), the table afterwards
forgot_password(us, t, email, raw_token) ==
    {[response |-> forgot_password_response(out.ret),
      mail |-> IF out.ret # 0 THEN <<lower(email), out.ret>> ELSE None,
      users |-> out.users]
     : out \in request_password_reset(us, t, lower(email), raw_token)}

---------------------------------------------------------------------------
(* Password Reset Consumption: AuthService.reset_password *)

\* a reset_password that never looks at the expiry
ResetExpired_Never(expires_at, t) == FALSE

\* line 270
ResetExpired(expires_at, t) == expires_at < t

\* lines 262-275: "ok" or the failure, for the row found
reset_password_check(user, t) ==
    IF user.password_reset_expires_at = NullTime THEN InvalidOrExpiredToken
    ELSE IF ResetExpired(user.password_reset_expires_at, t)
        THEN InvalidOrExpiredToken
    ELSE IF user.auth_provider # "password" THEN InvalidOrExpiredToken
    ELSE "ok"

\* a reset_password that leaves the consumed token in place
reset_password_store_KeepsToken(user, new_password) ==
    [user EXCEPT !.password_hash = hash_password(new_password),
                 !.password_reset_requested_at = NullTime]

\* a reset_password that leaves the request timestamp in place
reset_password_store_KeepsRequestedAt(user, new_password) ==
    [user EXCEPT !.password_hash = hash_password(new_password),
                 !.password_reset_token_hash = None,
                 !.password_reset_expires_at = NullTime]

\* lines 277-282
reset_password_store(user, new_password) ==
    [user EXCEPT !.password_hash = hash_password(new_password),
                 !.password_reset_token_hash = None,
                 !.password_reset_expires_at = NullTime,
                 !.password_reset_requested_at = NullTime]

\* a reset_password that leaves verification to verify_email
reset_password_verify_Skips(user, t) == user

\* an implicit verification that sets the flag and leaves the pending
\* verification token in place
reset_password_verify_KeepsVerificationToken(user, t) ==
    IF ~user.is_verified
    THEN [user EXCEPT !.is_verified = TRUE,
                      !.verified_at = t]
    ELSE user

\* lines 284-289
reset_password_verify(user, t) ==
    IF ~user.is_verified
    THEN [user EXCEPT !.is_verified = TRUE,
                      !.verified_at = t,
                      !.email_verification_token_hash = None,
                      !.email_verification_expires_at = NullTime]
    ELSE user

\* a reset_password that looks the token up and consumes it before it
\* checks the new password
reset_password_ConsumesFirst(us, t, token, new_password) ==
    LET found == ByResetHash(us, hash_password_reset_token(token))
    IN  IF found = {} THEN {Raise(us, InvalidOrExpiredToken)}
        ELSE {IF reset_password_check(user, t) # "ok"
              THEN Raise(us, reset_password_check(user, t))
              ELSE IF validate_password_strength(new_password) # "ok"
              THEN Raise(Update(us,
                       [user EXCEPT !.password_reset_token_hash = None,
                                    !.password_reset_expires_at = NullTime]),
                       validate_password_strength(new_password))
              ELSE Return(Update(us,
                       reset_password_verify(
                           reset_password_store(user, new_password), t)), 0)
              : user \in found}

\* lines 255-292
reset_password(us, t, token, new_password) ==
    LET found == ByResetHash(us, hash_password_reset_token(token))
    IN  IF validate_password_strength(new_password) # "ok"
        THEN {Raise(us, validate_password_strength(new_password))}
        ELSE IF found = {} THEN {Raise(us, InvalidOrExpiredToken)}
        ELSE {IF reset_password_check(user, t) # "ok"
              THEN Raise(us, reset_password_check(user, t))
              ELSE Return(Update(us,
                       reset_password_verify(
                           reset_password_store(user, new_password), t)), 0)
              : user \in found}

---------------------------------------------------------------------------
(* External Identity Linker: verify_google_id_token and                    *)
(* AuthService.login_with_google.  An ID token is modelled by what Google's *)
(* verifier finds in it: [valid, email, name, email_verified].             *)

\* MYFUTURE_GOOGLE_CLIENT_ID of a deployment with Google login enabled
google_client_id == <<"c","i","d">>

NoClaims == [email |-> None, name |-> None, email_verified |-> "None"]

\* google_id_token.py lines 25-64 under a given settings.google_client_id:
\* [res, claims]
verify_google_id_token_for(client_id, id_token) ==
    IF strip(client_id) = <<>>
    THEN [res |-> GoogleNotConfigured, claims |-> NoClaims]
    ELSE IF ~id_token.valid
    THEN [res |-> InvalidGoogleToken, claims |-> NoClaims]
    ELSE IF id_token.email = None
    THEN [res |-> InvalidGoogleToken, claims |-> NoClaims]
    ELSE [res |-> "ok",
          claims |-> [email |-> lower(id_token.email),
                      name |-> IF strip(id_token.name) # <<>>
                               THEN id_token.name ELSE None,
                      email_verified |-> id_token.email_verified]]

verify_google_id_token(id_token) ==
    verify_google_id_token_for(google_client_id, id_token)

\* lines 100-113
google_row(us, email, username, t) ==
    [id |-> NewId(us),
     username |-> username,
     email |-> email,
     password_hash |-> None,
     auth_provider |-> "google",
     is_verified |-> TRUE,
     verified_at |-> t,
     email_verification_token_hash |-> None,
     email_verification_expires_at |-> NullTime,
     password_reset_token_hash |-> None,
     password_reset_expires_at |-> NullTime,
     password_reset_requested_at |-> NullTime]

\* a link that keeps the local password
link_google_KeepsPassword(user, t) ==
    [user EXCEPT !.auth_provider = "google",
                 !.is_verified = TRUE,
                 !.verified_at = IF user.is_verified THEN @ ELSE t,
                 !.email_verification_token_hash = None,
                 !.email_verification_expires_at = NullTime,
                 !.password_reset_token_hash = None,
                 !.password_reset_expires_at = NullTime,
                 !.password_reset_requested_at = NullTime]

\* a link that drops the password but forgets the provider
link_google_KeepsProvider(user, t) ==
    [user EXCEPT !.password_hash = None,
                 !.is_verified = TRUE,
                 !.verified_at = IF user.is_verified THEN @ ELSE t,
                 !.email_verification_token_hash = None,
                 !.email_verification_expires_at = NullTime,
                 !.password_reset_token_hash = None,
                 !.password_reset_expires_at = NullTime,
                 !.password_reset_requested_at = NullTime]

\* a link that stamps verified_at on every login
link_google_Restamps(user, t) ==
    [user EXCEPT !.auth_provider = "google",
                 !.password_hash = None,
                 !.is_verified = TRUE,
                 !.verified_at = t,
                 !.email_verification_token_hash = None,
                 !.email_verification_expires_at = NullTime,
                 !.password_reset_token_hash = None,
                 !.password_reset_expires_at = NullTime,
                 !.password_reset_requested_at = NullTime]

\* a link that leaves a pending reset token in place
link_google_KeepsResetToken(user, t) ==
    [user EXCEPT !.auth_provider = "google",
                 !.password_hash = None,
                 !.is_verified = TRUE,
                 !.verified_at = IF user.is_verified THEN @ ELSE t,
                 !.email_verification_token_hash = None,
                 !.email_verification_expires_at = NullTime]

\* lines 120-137
link_google(user, t) ==
    [user EXCEPT !.auth_provider = "google",
                 !.password_hash = None,
                 !.is_verified = TRUE,
                 !.verified_at = IF user.is_verified THEN @ ELSE t,
                 !.email_verification_token_hash = None,
                 !.email_verification_expires_at = NullTime,
                 !.password_reset_token_hash = None,
                 !.password_reset_expires_at = NullTime,
                 !.password_reset_requested_at = NullTime]

\* a creation that has added its row before it looks for a username
google_create_InsertsFirst(us, t, claims) ==
    {IF a.ok
     THEN Insert(us, google_row(us, claims.email, a.name, t), 0)
     ELSE Raise(us \cup {google_row(us, claims.email, None, t)},
                AllocationExhausted)
     : a \in AllocateUsername(us, claims.name)}

\* lines 98-117
google_create(us, t, claims) ==
    {IF a.ok
     THEN Insert(us, google_row(us, claims.email, a.name, t), 0)
     ELSE Raise(us, AllocationExhausted)
     : a \in AllocateUsername(us, claims.name)}

\* lines 119-146
google_link(us, t, claims, user) ==
    LET linked == link_google(user, t)
    IN  IF linked.username # None THEN {Return(Update(us, linked), 0)}
        ELSE {IF a.ok
              THEN Return(Update(us, [linked EXCEPT !.username = a.name]), 0)
              ELSE Raise(us, AllocationExhausted)
              : a \in AllocateUsername(us, claims.name)}

\* lines 89-146, v being what verify_google_id_token returned or raised
login_with_google_from(v, us, t) ==
    IF v.res # "ok" THEN {Raise(us, v.res)}
    ELSE IF v.claims.email_verified = "False"
    THEN {Raise(us, GoogleEmailNotVerified)}
    ELSE IF ByEmail(us, v.claims.email) = {}
    THEN google_create(us, t, v.claims)
    ELSE UNION {google_link(us, t, v.claims, user)
                : user \in ByEmail(us, v.claims.email)}

login_with_google(us, t, id_token) ==
    login_with_google_from(verify_google_id_token(id_token), us, t)

---------------------------------------------------------------------------
(* Inputs of the model *)

EmailInputs == {<<"a","@","x">>, <<"A","@","x">>, <<"b","@","x">>}
\* two spellings of one address
OneEmail == {<<"a","@","x">>, <<"A","@","x">>}

StrongPassword1 == <<"A","b","c","d","e","f","1","!">>
StrongPassword2 == <<"B","b","c","d","e","f","2","!">>
WeakPassword == <<"a","b","c","d","e","f","1","!">>     \* no uppercase

PasswordInputs == {StrongPassword1, StrongPassword2, WeakPassword}
RegisterPasswordInputs == {StrongPassword1, WeakPassword}

\* login and forgot-password are also tried with an address nobody registers
LookupEmailInputs == EmailInputs \cup {<<"c","@","x">>}

UsernameInputs == {None, <<" ","b","o","b">>, <<"b","!","b">>}

GoogleInputs(emails) ==
    {[valid |-> FALSE, email |-> None, name |-> None,
      email_verified |-> "None"]}
    \cup [valid : {TRUE},
          email : emails,
          name : {None, <<"b","o","b">>},
          email_verified : {"True", "False", "None"}]

\* values of MYFUTURE_GOOGLE_CLIENT_ID: the default (empty), blank, set
ClientIdInputs == {<<>>, <<" ">>, google_client_id}

\* c repeated n times
Repeat(c, n) == [i \in 1..n |-> c]

\* passwords for the policy: u uppercase letters, l lowercase letters, d
\* digits, s punctuation marks and w four-byte characters, around the
\* limits of 8 characters and 72 bytes
PolicyInputs ==
    {Repeat("A", u) \o Repeat("a", l) \o Repeat("1", d) \o Repeat("!", s)
        \o Repeat("U+1F600", w)
     : u \in 0..1, l \in {0, 1, 4, 5} \cup ((MaxFill - 2)..MaxFill),
       d \in 0..1, s \in 0..1, w \in {0, 1, MaxWide - 1, MaxWide}}

\* stored strings that are no bcrypt hash: null, garbage, a bcrypt hash cut
\* short, one with trailing bytes, and another scheme's hash of password p
MalformedHashes(p) ==
    {None, <<"x">>, <<"$2b$12$">>, <<"$2b$12$", p, "x">>,
     <<"$argon2id$", p>>}

\* usernames found in the table when a username is allocated: the default
\* names, a display name and its suffixed form, a name of 30 characters and
\* its suffixed form
AllocatorNames ==
    <<UserPrefix \o <<"0","0","0","0","0","0">>,
      UserPrefix \o <<"0","0","0","0","0","1">>,
      <<"b","o","b">>,
      <<"b","o","b","_","0","0","0","0">>,
      Repeat("a", 30),
      Repeat("a", 25) \o <<"_","0","0","0","0">>>>

\* the account holding AllocatorNames[i]
AllocatorRow(i) ==
    [google_row({}, Repeat("n", i) \o <<"@","x">>, AllocatorNames[i], 0)
       EXCEPT !.id = i]

AllocatorTables ==
    {{AllocatorRow(i) : i \in S}
     : S \in {T \in SUBSET (1..Len(AllocatorNames))
                : Cardinality(T) <= MaxUsers}}

\* display names Google asserts
DisplayNames ==
    {None, <<" ">>, <<"!","!">>, <<"a","b">>, <<"b","o","b">>,
     <<" ","b","o","b","!"," ">>, <<"b","o",".","-","b","o">>,
     Repeat("a", 30), Repeat("a", 31), Repeat("a", 29) \o <<"!","b">>}

\* the assertions presented where there are several accounts
DirectoryGoogleInputs == GoogleInputs({<<"A","@","x">>, <<"b","@","x">>})

\* the clock is observed at these instants: the configured durations and the
\* seconds around them
Instants ==
    {0, Cooldown - 1, Cooldown, ResetLifetime, ResetLifetime + 1,
     VerificationLifetime, VerificationLifetime + 1}
CoarseInstants == {0, Cooldown}

Procs == 1..MaxProcs

---------------------------------------------------------------------------
(* State *)

\* a register request that has not passed its pre-check
IdleCall ==
    [pc |-> "idle", email |-> None, password |-> None, username |-> None]

\* raw tokens are numbered in the order secrets.token_urlsafe(32) yields
\* them: a value is never drawn twice
IssuedTokens == {r.tok : r \in hist.vIssued \cup hist.rIssued}
NextToken == Cardinality(IssuedTokens) + 1
TokenInputs == IssuedTokens \cup {0}

\* no helper is being evaluated
NoEval == [fn |-> "none", arg |-> None, out |-> "none"]

Init ==
    /\ users = {}
    /\ now = 0
    /\ hist = [vIssued |-> {}, vTried |-> {}, vUsed |-> {},
               rIssued |-> {}, rUsed |-> {}]
    /\ calls = [p \in Procs |-> IdleCall]
    /\ records = {}
    /\ eval = NoEval

\* the row a call has added to the table
NewRow(before, after) == CHOOSE u \in after : u \notin before

---------------------------------------------------------------------------
(* Requests, each served as one unit.  hist records, for the claims, which *)
(* raw token went to which account at what time (vIssued by register,      *)
(* rIssued by request_password_reset), which verification tokens were      *)
(* presented (vTried) and which tokens were consumed (vUsed, rUsed).        *)

Register(email, password, username) ==
    /\ \E out \in api_register(users, now, email, password, username,
                               NextToken) :
         /\ out.res = "ok" =>
                NextToken <= MaxTokens /\ Cardinality(users) < MaxUsers
         /\ users' = out.users
         /\ hist' = IF out.res = "ok"
                    THEN [hist EXCEPT !.vIssued = @ \cup
                            {[tok |-> out.ret,
                              id |-> NewRow(users, out.users).id,
                              at |-> now]}]
                    ELSE hist
    /\ UNCHANGED <<now, calls, eval, records>>

Login(email, password) ==
    /\ \E out \in api_login(users, email, password) : users' = out.users
    /\ UNCHANGED <<now, hist, calls, eval, records>>

LoginWithGoogle(id_token) ==
    /\ \E out \in login_with_google(users, now, id_token) :
         /\ Cardinality(out.users) <= MaxUsers
         /\ users' = out.users
    /\ UNCHANGED <<now, hist, calls, eval, records>>

VerifyEmail(token) ==
    /\ \E out \in verify_email(users, now, token) :
         /\ users' = out.users
         /\ hist' = [hist EXCEPT
                       !.vTried = @ \cup ({r.tok : r \in hist.vIssued}
                                          \cap {token}),
                       !.vUsed = IF out.res = "ok" THEN @ \cup {token} ELSE @]
    /\ UNCHANGED <<now, calls, eval, records>>

RequestPasswordReset(email) ==
    /\ \E out \in api_forgot_password(users, now, email, NextToken) :
         /\ out.ret # 0 => NextToken <= MaxTokens
         /\ users' = out.users
         /\ hist' = IF out.ret # 0
                    THEN [hist EXCEPT !.rIssued = @ \cup
                            {[tok |-> out.ret,
                              id |-> NewRow(users, out.users).id,
                              at |-> now]}]
                    ELSE hist
    /\ UNCHANGED <<now, calls, eval, records>>

ResetPassword(token, new_password) ==
    /\ \E out \in reset_password(users, now, token, new_password) :
         /\ users' = out.users
         /\ hist' = IF out.res = "ok"
                    THEN [hist EXCEPT !.rUsed = @ \cup {token}]
                    ELSE hist
    /\ UNCHANGED <<now, calls, eval, records>>

Tick(instants) ==
    /\ \E t \in instants : t > now /\ now' = t
    /\ UNCHANGED <<users, hist, calls, eval, records>>

---------------------------------------------------------------------------
(* Spec: the life of one account, all flows, the clock at every instant *)

Next ==
    \/ \E e \in OneEmail, p \in RegisterPasswordInputs,
          n \in UsernameInputs : Register(e, p, n)
    \/ \E e \in OneEmail, p \in PasswordInputs : Login(e, p)
    \/ \E g \in GoogleInputs({<<"A","@","x">>}) : LoginWithGoogle(g)
    \/ \E t \in TokenInputs : VerifyEmail(t)
    \/ \E e \in OneEmail : RequestPasswordReset(e)
    \/ \E t \in TokenInputs, p \in PasswordInputs : ResetPassword(t, p)
    \/ Tick(Instants)

Spec == Init /\ [][Next]_vars

(* SpecDirectory: several accounts, all flows, a coarse clock *)

NextDirectory ==
    \/ \E e \in EmailInputs, p \in RegisterPasswordInputs,
          n \in UsernameInputs : Register(e, p, n)
    \/ \E e \in LookupEmailInputs, p \in PasswordInputs : Login(e, p)
    \/ \E g \in DirectoryGoogleInputs : LoginWithGoogle(g)
    \/ \E t \in TokenInputs : VerifyEmail(t)
    \/ \E e \in LookupEmailInputs : RequestPasswordReset(e)
    \/ \E t \in TokenInputs, p \in PasswordInputs : ResetPassword(t, p)
    \/ Tick(CoarseInstants)

SpecDirectory == Init /\ [][NextDirectory]_vars

(* SpecRace: concurrent POST /auth/register requests, each with its own    *)
(* session.  A request first runs its pre-checks (lines 33-47) against the *)
(* table as it is then, and later builds its row and commits (lines        *)
(* 49-67); other requests run in between.                                  *)

RegisterCheck(p, email, password, username) ==
    /\ calls[p].pc = "idle"
    /\ \E pre \in register_precheck(users, lower(email), password, username) :
         calls' = IF pre.res = "ok"
                  THEN [calls EXCEPT ![p] =
                          [pc |-> "checked", email |-> lower(email),
                           password |-> password, username |-> pre.username]]
                  ELSE calls
    /\ UNCHANGED <<users, now, hist, eval, records>>

RegisterCommit(p) ==
    /\ calls[p].pc = "checked"
    /\ LET out == register_write(users, now, calls[p].email,
                                 calls[p].password, calls[p].username,
                                 NextToken)
       IN  /\ out.res = "ok" =>
                  NextToken <= MaxTokens /\ Cardinality(users) < MaxUsers
           /\ users' = out.users
           /\ hist' = IF out.res = "ok"
                      THEN [hist EXCEPT !.vIssued = @ \cup
                              {[tok |-> out.ret,
                                id |-> NewRow(users, out.users).id,
                                at |-> now]}]
                      ELSE hist
           /\ calls' = [calls EXCEPT ![p].pc =
                          IF out.res = "ok" THEN "done" ELSE "rejected"]
    /\ UNCHANGED <<now, eval, records>>

NextRace ==
    \/ \E p \in Procs, e \in EmailInputs, w \in RegisterPasswordInputs,
          n \in UsernameInputs : RegisterCheck(p, e, w, n)
    \/ \E p \in Procs : RegisterCommit(p)

SpecRace == Init /\ [][NextRace]_vars

---------------------------------------------------------------------------
(* Claims *)

\* the row with this id (rows are never deleted)
RowById(us, id) == CHOOSE u \in us : u.id = id

\* the reset tokens issued to account id, and the one issued last
ResetsOf(id) == {r \in hist.rIssued : r.id = id}
IsLatestReset(r) == \A q \in ResetsOf(r.id) : q.tok <= r.tok

(* C1, the claim as stated: after register returned raw token T, the first *)
(* verify_email(T) made before T's expiry succeeds and sets verified,      *)
(* whatever happened in between; every verify_email(T) after T was         *)
(* consumed fails with "Invalid or expired token" and changes nothing.     *)
C1_FirstVerifyAlwaysSucceeds ==
    \A r \in hist.vIssued :
      \A out \in verify_email(users, now, r.tok) :
        /\ (r.tok \notin hist.vTried /\ now < r.at + VerificationLifetime)
             => /\ out.res = "ok"
                /\ RowById(out.users, r.id).is_verified
        /\ r.tok \in hist.vUsed
             => out.res = InvalidOrExpiredToken /\ out.users = users

(* C1 as amended: after register returned raw token T, a verify_email(T)   *)
(* made before T's expiry while the account is still unverified (no        *)
(* reset_password and no Google link has verified it meanwhile) succeeds   *)
(* and sets verified; every verify_email(T) after T was consumed fails     *)
(* with "Invalid or expired token" and changes nothing, whatever happened  *)
(* in between.                                                             *)
C1_VerificationTokenSingleUse ==
    \A r \in hist.vIssued :
      \A out \in verify_email(users, now, r.tok) :
        /\ (~RowById(users, r.id).is_verified
            /\ now < r.at + VerificationLifetime)
             => /\ out.res = "ok"
                /\ RowById(out.users, r.id).is_verified
        /\ r.tok \in hist.vUsed
             => out.res = InvalidOrExpiredToken /\ out.users = users

\* T was consumed, and a reset token was issued to the account afterwards
C1_Witness ==
    \E r \in hist.vIssued :
      /\ r.tok \in hist.vUsed
      /\ \E q \in ResetsOf(r.id) : q.at > r.at

(* C2: reset_password with a raw token whose hash matches an account (and  *)
(* a new password the policy accepts) fails with "Invalid or expired       *)
(* token" and leaves the table unchanged when now is after issue time +    *)
(* configured minutes; before that it succeeds, stores the new credential  *)
(* and clears the reset hash.                                              *)
C2_ResetTokenExpires ==
    \A r \in hist.rIssued, p \in PasswordInputs :
      (/\ ByResetHash(users, hash_password_reset_token(r.tok)) # {}
       /\ validate_password_strength(p) = "ok")
      => \A out \in reset_password(users, now, r.tok, p) :
           /\ now > r.at + ResetLifetime
                => out.res = InvalidOrExpiredToken /\ out.users = users
           /\ now < r.at + ResetLifetime
                => /\ out.res = "ok"
                   /\ verify_password(p, RowById(out.users, r.id).password_hash)
                   /\ RowById(out.users, r.id).password_reset_token_hash = None

\* a token is past its expiry with its hash still stored, after another
\* token was consumed in time
C2_Witness ==
    /\ hist.rUsed # {}
    /\ \E r \in hist.rIssued :
         /\ ByResetHash(users, hash_password_reset_token(r.tok)) # {}
         /\ now > r.at + ResetLifetime

(* C3: once reset_password(T, p) has succeeded, every reset_password(T, p') *)
(* fails and changes nothing (so the credential stays as it was); the      *)
(* failure is "Invalid or expired token" whenever p' passes the policy.    *)
C3_ResetTokenSingleUse ==
    \A T \in hist.rUsed, p \in PasswordInputs :
      \A out \in reset_password(users, now, T, p) :
        /\ out.res # "ok"
        /\ out.users = users
        /\ validate_password_strength(p) = "ok"
             => out.res = InvalidOrExpiredToken

\* T was consumed and a newer reset token is pending
C3_Witness ==
    \E T \in hist.rUsed :
      \E q \in hist.rIssued :
        /\ q.tok > T
        /\ ByResetHash(users, hash_password_reset_token(q.tok)) # {}

C6_FailedRegisterChangesNothing ==
    \A e \in EmailInputs, p \in PasswordInputs, n \in UsernameInputs :
      \A out \in api_register(users, now, e, p, n, NextToken) :
        /\ (\E u \in users : lower(u.email) = lower(e))
             => out.res = EmailTaken
        /\ out.res # "ok" => out.users = users

\* in one state register can fail on a taken email, on the password policy,
\* on an invalid username and on a taken username
C6_Witness ==
    \A msg \in {EmailTaken, PasswordNoUpper, UsernameInvalid, UsernameTaken} :
      \E e \in EmailInputs, p \in PasswordInputs, n \in UsernameInputs :
        \E out \in api_register(users, now, e, p, n, NextToken) :
          out.res = msg

(* C7: once an account's auth_provider is google it is google in every     *)
(* later state; a google account has no password credential and login on   *)
(* its email fails with "Invalid credentials" for every password.          *)
C7_GoogleLinkIsOneWay ==
    [][ /\ \A u \in users :
             u.auth_provider = "google"
             => \E v \in users' : v.id = u.id /\ v.auth_provider = "google"
        /\ \A v \in users' :
             v.auth_provider = "google"
             => /\ v.password_hash = None
                /\ \A e \in EmailInputs, p \in PasswordInputs :
                     lower(e) = v.email
                     => \A out \in api_login(users', e, p) :
                          out.res = InvalidCredentials
      ]_vars

\* an account registered with a password is now a google account, and a
\* reset token had been issued to it
C7_Witness ==
    \E r \in hist.vIssued :
      /\ RowById(users, r.id).auth_provider = "google"
      /\ ResetsOf(r.id) # {}

(* C8: every password account has a password credential, every google     *)
(* account has none.                                                       *)
C8_ProviderMatchesCredential ==
    \A u \in users :
      /\ u.auth_provider \in {"password", "google"}
      /\ u.auth_provider = "password" => u.password_hash # None
      /\ u.auth_provider = "google" => u.password_hash = None

\* a password account whose credential came from reset_password beside a
\* google account
C8_Witness ==
    /\ \E u \in users : u.auth_provider = "google"
    /\ \E u \in users :
         /\ u.auth_provider = "password"
         /\ \E r \in ResetsOf(u.id) : r.tok \in hist.rUsed

(* C9: no two accounts have emails equal ignoring case, and no two         *)
(* accounts share a non-null username.                                     *)
C9_UniqueEmailAndUsername ==
    \A u, v \in users :
      u # v => /\ lower(u.email) # lower(v.email)
               /\ u.username # None => u.username # v.username

\* one account made by register and one made by login_with_google, the
\* second under a name derived around the first's
C9_Witness ==
    \E u, v \in users :
      /\ u.auth_provider = "password"
      /\ u.username = <<"b","o","b">>
      /\ v.auth_provider = "google"
      /\ v.id \notin {r.id : r \in hist.vIssued}
      /\ Prefix(v.username, 4) = <<"b","o","b","_">>

(* C10: however the pre-checks and commits of concurrent register calls  *)
(* interleave, the table never holds two rows with one email or one        *)
(* username, and of the calls made with one email (or one username) at     *)
(* most one creates an account.                                            *)
C10_RacingRegistersOneWins ==
    /\ \A u \in users :
         /\ Cardinality(ByEmail(users, u.email)) = 1
         /\ u.username # None
              => Cardinality(ByUsername(users, u.username)) = 1
    /\ \A p, q \in Procs :
         (p # q /\ calls[p].pc = "done" /\ calls[q].pc = "done")
         => /\ calls[p].email # calls[q].email
            /\ calls[p].username # calls[q].username

\* two calls passed their pre-checks with one email; one created the
\* account and the commit of the other was rejected
C10_Witness ==
    \E p, q \in Procs :
      /\ calls[p].pc = "done"
      /\ calls[q].pc = "rejected"
      /\ calls[p].email = calls[q].email

(* C11: when the unique constraint rejects the write of a register call    *)
(* whose pre-check had passed, the call reports "Email already registered" *)
(* or "Username already taken", as the pre-check would have.               *)
C11_RejectedWriteIsClassified ==
    \A p \in Procs :
      calls[p].pc = "checked"
      => LET out == register_write(users, now, calls[p].email,
                                   calls[p].password, calls[p].username,
                                   NextToken)
         IN  out.res # "ok" => out.res \in {EmailTaken, UsernameTaken}

\* a call that passed its pre-check is about to commit an email another
\* call has committed since
C11_Witness ==
    \E p \in Procs :
      /\ calls[p].pc = "checked"
      /\ ByEmail(users, calls[p].email) # {}

(* C12: login fails with one and the same outcome, "Invalid credentials",  *)
(* when there is no account for the email, when the account has no         *)
(* password credential and when the password does not match; it succeeds   *)
(* only on a matching credential, and it never changes the table.          *)
C12_LoginIsGenericAndReadOnly ==
    \A e \in LookupEmailInputs, p \in PasswordInputs :
      \A out \in api_login(users, e, p) :
        LET found == {u \in users : u.email = lower(e)}
            matches == \E u \in found :
                         /\ u.password_hash # None
                         /\ verify_password(p, u.password_hash)
        IN  /\ out.users = users
            /\ matches => out.res = "ok"
            /\ ~matches => out = Raise(users, InvalidCredentials)

\* in one state login meets all three failing cases and the succeeding one
C12_Witness ==
    /\ \E e \in LookupEmailInputs : ByEmail(users, lower(e)) = {}
    /\ \E u \in users : u.password_hash = None
    /\ \E u \in users, p, q \in PasswordInputs :
         /\ u.password_hash # None
         /\ verify_password(p, u.password_hash)
         /\ ~verify_password(q, u.password_hash)

(* C13: request_password_reset returns no token and leaves the table       *)
(* unchanged when the email is unknown, when the account is not a password *)
(* account or has no credential, and while the cooldown runs; otherwise it *)
(* issues a token; and the forgot-password endpoint answers with the same  *)
(* neutral response in every case, a token issued or not.                  *)
C13_ResetRequestIsSilent ==
    \A e \in LookupEmailInputs :
      LET found == ByEmail(users, lower(e))
          refused ==
            \/ found = {}
            \/ \E u \in found :
                 \/ u.auth_provider # "password"
                 \/ u.password_hash = None
                 \/ /\ u.password_reset_requested_at # NullTime
                    /\ now - u.password_reset_requested_at < Cooldown
      IN  /\ \A out \in request_password_reset(users, now, lower(e), NextToken) :
               /\ refused => out.ret = 0 /\ out.users = users
               /\ ~refused => out.ret = NextToken
          /\ \A r \in forgot_password(users, now, e, NextToken) :
               /\ r.response = [status |-> 200, message |-> neutral]
               /\ refused => r.mail = None /\ r.users = users

\* in one state the request meets an unknown email, a google account and a
\* password account inside its cooldown
C13_Witness ==
    /\ \E e \in LookupEmailInputs : ByEmail(users, lower(e)) = {}
    /\ \E u \in users : u.auth_provider = "google"
    /\ \E u \in users :
         /\ u.auth_provider = "password"
         /\ u.password_reset_requested_at # NullTime
         /\ now - u.password_reset_requested_at < Cooldown

(* C14: verify_email fails with "Invalid or expired token" and changes     *)
(* nothing whenever the token's hash matches no account, the matched       *)
(* account is already verified, the stored expiry is absent, or the stored *)
(* expiry is less than or equal to now; in every other case it succeeds.   *)
C14_VerifyEmailFailsAtExpiry ==
    \A token \in TokenInputs :
      LET found == ByVerificationHash(users,
                                      hash_email_verification_token(token))
          fails ==
            \/ found = {}
            \/ \E u \in found :
                 \/ u.is_verified
                 \/ u.email_verification_expires_at = NullTime
                 \/ u.email_verification_expires_at <= now
      IN  \A out \in verify_email(users, now, token) :
            /\ fails => out.res = InvalidOrExpiredToken /\ out.users = users
            /\ ~fails => out.res = "ok"

\* a pending verification token whose expiry is exactly now
C14_Witness ==
    \E u \in users :
      /\ ~u.is_verified
      /\ u.email_verification_token_hash # None
      /\ u.email_verification_expires_at = now

(* C15: a successful reset_password on an account not yet verified marks   *)
(* it verified with verified_at = the time of the call and clears the      *)
(* pending verification hash and expiry; from then on the verification     *)
(* token issued at registration fails in verify_email and changes nothing. *)
C15_ResetVerifiesAccount ==
    /\ \A r \in hist.rIssued, p \in PasswordInputs :
         \A out \in reset_password(users, now, r.tok, p) :
           (out.res = "ok" /\ ~RowById(users, r.id).is_verified)
           => LET after == RowById(out.users, r.id)
              IN  /\ after.is_verified
                  /\ after.verified_at = now
                  /\ after.email_verification_token_hash = None
                  /\ after.email_verification_expires_at = NullTime
                  /\ \A v \in hist.vIssued :
                       v.id = r.id
                       => \A again \in verify_email(out.users, now, v.tok) :
                            again.res = InvalidOrExpiredToken
    /\ \A v \in hist.vIssued :
         (\E r \in ResetsOf(v.id) : r.tok \in hist.rUsed)
         => \A out \in verify_email(users, now, v.tok) :
              out.res = InvalidOrExpiredToken /\ out.users = users

\* an account was verified by consuming a reset token, some time after it
\* registered; its verification token was never consumed and is not yet
\* past its expiry
C15_Witness ==
    \E v \in hist.vIssued :
      /\ v.tok \notin hist.vUsed
      /\ \E r \in ResetsOf(v.id) : r.tok \in hist.rUsed
      /\ RowById(users, v.id).verified_at > v.at
      /\ RowById(users, v.id).auth_provider = "password"
      /\ now < v.at + VerificationLifetime

(* C16: in every step, an account that is verified stays verified and      *)
(* keeps the verified_at it has (no verify_email, reset_password or        *)
(* login_with_google writes it a second time), and in every account        *)
(* verified_at is non-null exactly when is_verified is true.               *)
C16_VerifiedAtWrittenOnce ==
    [][ /\ \A u \in users :
             u.is_verified
             => \E v \in users' :
                  /\ v.id = u.id
                  /\ v.is_verified
                  /\ v.verified_at = u.verified_at
        /\ \A v \in users' : v.is_verified <=> v.verified_at # NullTime
      ]_vars

\* an account verified at one time was linked to Google at a later one:
\* a reset token was issued to it after it was verified
C16_Witness ==
    \E u \in users :
      /\ u.auth_provider = "google"
      /\ u.is_verified
      /\ \E r \in ResetsOf(u.id) : r.at > u.verified_at

(* C17: a verification or reset token hash is cleared once its token has   *)
(* been consumed or has expired: when verify_email or reset_password is    *)
(* called with a token that was consumed or is past its expiry, the call   *)
(* does not validate it, and when the call completes no account holds the  *)
(* hash of that token.                                                     *)
C17_StaleHashesAreCleared ==
    /\ \A v \in hist.vIssued :
         (v.tok \in hist.vUsed \/ v.at + VerificationLifetime < now)
         => \A out \in verify_email(users, now, v.tok) :
              /\ out.res # "ok"
              /\ ByVerificationHash(out.users,
                     hash_email_verification_token(v.tok)) = {}
    /\ \A r \in hist.rIssued, p \in PasswordInputs :
         (/\ validate_password_strength(p) = "ok"
          /\ (r.tok \in hist.rUsed \/ r.at + ResetLifetime < now))
         => \A out \in reset_password(users, now, r.tok, p) :
              /\ out.res # "ok"
              /\ ByResetHash(out.users,
                     hash_password_reset_token(r.tok)) = {}

\* a verification token was presented after its expiry and its hash is
\* still stored
C17_Witness ==
    \E v \in hist.vIssued :
      /\ v.at + VerificationLifetime < now
      /\ v.tok \in hist.vTried
      /\ ByVerificationHash(users, hash_email_verification_token(v.tok)) # {}

(* C18: in every reachable state and for every account, the verification  *)
(* hash and its expiry are both null or both non-null, and the reset hash  *)
(* and its expiry are both null or both non-null.                          *)
C18_HashAndExpiryArePaired ==
    \A u \in users :
      /\ u.email_verification_token_hash = None
           <=> u.email_verification_expires_at = NullTime
      /\ u.password_reset_token_hash = None
           <=> u.password_reset_expires_at = NullTime

\* one account holds both a pending verification token and a pending reset
\* token, next to an account that holds neither
C18_Witness ==
    /\ \E u \in users :
         /\ u.email_verification_token_hash # None
         /\ u.password_reset_token_hash # None
    /\ \E u \in users :
         /\ u.email_verification_token_hash = None
         /\ u.password_reset_token_hash = None
         /\ u.verified_at # NullTime

(* C19: every successful login_with_google, creating the account or       *)
(* merging into the one with that email, leaves the account with           *)
(* auth_provider google, verified with a verified_at, no password          *)
(* credential, every verification and reset token field null and a         *)
(* username; every verification or reset token issued to the account       *)
(* before fails from then on.                                              *)
C19_GoogleLoginLeavesCleanAccount ==
    /\ \A g \in DirectoryGoogleInputs :
         \A out \in login_with_google(users, now, g) :
           out.res = "ok"
           => /\ Cardinality(ByEmail(out.users, lower(g.email))) = 1
              /\ \A u \in ByEmail(out.users, lower(g.email)) :
                   /\ u.auth_provider = "google"
                   /\ u.is_verified
                   /\ u.verified_at # NullTime
                   /\ u.password_hash = None
                   /\ u.email_verification_token_hash = None
                   /\ u.email_verification_expires_at = NullTime
                   /\ u.password_reset_token_hash = None
                   /\ u.password_reset_expires_at = NullTime
                   /\ u.password_reset_requested_at = NullTime
                   /\ u.username # None
                   /\ \A v \in hist.vIssued :
                        v.id = u.id
                        => \A o \in verify_email(out.users, now, v.tok) :
                             o.res = InvalidOrExpiredToken
                   /\ \A r \in ResetsOf(u.id), p \in PasswordInputs :
                        \A o \in reset_password(out.users, now, r.tok, p) :
                          o.res # "ok"
    /\ \A u \in users :
         u.auth_provider = "google"
         => /\ \A v \in hist.vIssued :
                 v.id = u.id
                 => \A o \in verify_email(users, now, v.tok) :
                      o.res = InvalidOrExpiredToken /\ o.users = users
            /\ \A r \in ResetsOf(u.id), p \in PasswordInputs :
                 \A o \in reset_password(users, now, r.tok, p) :
                   o.res # "ok" /\ o.users = users

\* an account created by login_with_google beside one merged by it; the
\* merged one had a verification token never consumed and a reset token
\* never consumed
C19_Witness ==
    /\ \E u \in users :
         /\ u.auth_provider = "google"
         /\ u.id \notin {v.id : v \in hist.vIssued}
    /\ \E v \in hist.vIssued :
         /\ RowById(users, v.id).auth_provider = "google"
         /\ v.tok \notin hist.vUsed
         /\ \E r \in ResetsOf(v.id) : r.tok \notin hist.rUsed

(* C20: a login_with_google call that fails (Google login not configured, *)
(* the verifier rejects the assertion, the assertion says email_verified   *)
(* is false, or no username can be allocated) creates no account and       *)
(* leaves every account unchanged; an assertion without an email_verified  *)
(* flag is accepted like one whose flag is true.                           *)
C20_FailedGoogleLoginChangesNothing ==
    \A cid \in ClientIdInputs, g \in GoogleInputs(LookupEmailInputs) :
      LET v == verify_google_id_token_for(cid, g)
          outs == login_with_google_from(v, users, now)
      IN  /\ \A out \in outs : out.res # "ok" => out.users = users
          /\ strip(cid) = <<>>
               => outs = {Raise(users, GoogleNotConfigured)}
          /\ (strip(cid) # <<>> /\ ~g.valid)
               => outs = {Raise(users, InvalidGoogleToken)}
          /\ (strip(cid) # <<>> /\ g.valid /\ g.email_verified = "False")
               => outs = {Raise(users, GoogleEmailNotVerified)}
          /\ (strip(cid) # <<>> /\ g.valid /\ g.email_verified = "None")
               => /\ \A out \in outs : out.res \in {"ok", AllocationExhausted}
                  /\ outs = login_with_google_from(
                              verify_google_id_token_for(cid,
                                  [g EXCEPT !.email_verified = "True"]),
                              users, now)

\* both default usernames are taken, so a first Google login for another
\* address fails for want of a username, while one for an existing
\* password account succeeds
C20_Witness ==
    /\ \E g \in GoogleInputs(LookupEmailInputs) :
         \E out \in login_with_google(users, now, g) :
           out.res = AllocationExhausted
    /\ \E g \in GoogleInputs(LookupEmailInputs) :
         /\ g.email_verified = "None"
         /\ \E out \in login_with_google(users, now, g) : out.res = "ok"
    /\ \E u \in users : u.auth_provider = "password"

---------------------------------------------------------------------------
(* SpecPolicy: core/security.py applied to one password.  The password is  *)
(* drawn by Init; eval.out is "pending" until the function has returned.   *)

InitPolicy ==
    /\ users = {}
    /\ now = 0
    /\ hist = [vIssued |-> {}, vTried |-> {}, vUsed |-> {},
               rIssued |-> {}, rUsed |-> {}]
    /\ calls = [p \in Procs |-> IdleCall]
    /\ records = {}
    /\ eval \in {[fn |-> "validate_password_strength", arg |-> p,
                  out |-> "pending"] : p \in PolicyInputs}
              \cup {[fn |-> "hash_password", arg |-> p, out |-> "pending"]
                    : p \in PolicyInputs}
              \cup UNION {{[fn |-> "verify_password",
                            arg |-> [password |-> p, password_hash |-> h],
                            out |-> "pending"]
                           : h \in MalformedHashes(p)
                               \cup {hash_password(q) : q \in PasswordInputs}}
                          : p \in PasswordInputs}

ValidatePassword ==
    /\ eval.fn = "validate_password_strength"
    /\ eval.out = "pending"
    /\ eval' = [eval EXCEPT !.out = validate_password_strength(eval.arg)]
    /\ UNCHANGED <<users, now, hist, calls, records>>

\* hash_password(p), the ValueError of its policy check included, and
\* verify_password of p against the hash it returned
HashThenVerify ==
    /\ eval.fn = "hash_password"
    /\ eval.out = "pending"
    /\ eval' = [eval EXCEPT !.out =
                  IF validate_password_strength(eval.arg) # "ok"
                  THEN "ValueError"
                  ELSE IF verify_password(eval.arg, hash_password(eval.arg))
                       THEN "True" ELSE "False"]
    /\ UNCHANGED <<users, now, hist, calls, records>>

\* verify_password against a stored string
VerifyStored ==
    /\ eval.fn = "verify_password"
    /\ eval.out = "pending"
    /\ eval' = [eval EXCEPT !.out =
                  IF verify_password(eval.arg.password,
                                     eval.arg.password_hash)
                  THEN "True" ELSE "False"]
    /\ UNCHANGED <<users, now, hist, calls, records>>

NextPolicy ==
    \/ ValidatePassword
    \/ HashThenVerify
    \/ VerifyStored

SpecPolicy == InitPolicy /\ [][NextPolicy]_vars

\* the six rules of the policy, as the claim words them
CountOf(s, chars) == Cardinality({i \in 1..Len(s) : s[i] \in chars})
RuleBroken(p) ==
    [bytes |-> ~(Utf8Len(p) <= 72),
     chars |-> ~(Len(p) >= 8),
     upper |-> ~(CountOf(p, UpperChars) >= 1),
     lower |-> ~(CountOf(p, LowerChars) >= 1),
     digit |-> ~(CountOf(p, DigitChars) >= 1),
     special |-> ~(\E i \in 1..Len(p) : ~IsAlnum(p[i]))]
RuleMessage ==
    [bytes |-> PasswordTooLong, chars |-> PasswordTooShort,
     upper |-> PasswordNoUpper, lower |-> PasswordNoLower,
     digit |-> PasswordNoDigit, special |-> PasswordNoSpecial]

(* C21: validate_password_strength accepts a password exactly when its    *)
(* UTF-8 length is at most 72 bytes, it has at least 8 characters and it   *)
(* contains an uppercase letter, a lowercase letter, a digit and a         *)
(* non-alphanumeric character; a password breaking exactly one rule is     *)
(* rejected with the message of that rule, and the over-length message is  *)
(* different from every weakness message.                                  *)
C21_PolicyAcceptsExactlyValid ==
    (eval.fn = "validate_password_strength" /\ eval.out # "pending")
    => LET broken == {k \in DOMAIN RuleMessage : RuleBroken(eval.arg)[k]}
       IN  /\ eval.out = "ok" <=> broken = {}
           /\ \A k \in broken : broken = {k} => eval.out = RuleMessage[k]
           /\ eval.out # "ok" => eval.out \in {RuleMessage[k] : k \in broken}
           /\ \A k \in DOMAIN RuleMessage \ {"bytes"} :
                RuleMessage[k] # RuleMessage["bytes"]

\* a password of fewer than 72 characters was rejected for its length in
\* bytes
C21_Witness ==
    /\ eval.fn = "validate_password_strength"
    /\ eval.out = PasswordTooLong
    /\ Len(eval.arg) < 72
    /\ RuleBroken(eval.arg).upper = FALSE

---------------------------------------------------------------------------
(* SpecAllocator: the Username Allocator against a table drawn by Init.    *)
(* _generate_default_username runs as its loop does, one candidate per     *)
(* step: eval.arg counts the candidates examined and holds the last one.   *)

InitAllocator ==
    /\ users \in AllocatorTables
    /\ now = 0
    /\ hist = [vIssued |-> {}, vTried |-> {}, vUsed |-> {},
               rIssued |-> {}, rUsed |-> {}]
    /\ calls = [p \in Procs |-> IdleCall]
    /\ records = {}
    /\ eval \in {[fn |-> "_generate_default_username",
                  arg |-> [examined |-> 0, candidate |-> None],
                  out |-> "pending"]}
              \cup {[fn |-> "_derive_username_from_name",
                     arg |-> [name |-> n, value |-> None],
                     out |-> "pending"] : n \in DisplayNames}

\* lines 73-77: one round of the loop
TryCandidate ==
    /\ eval.fn = "_generate_default_username"
    /\ eval.out = "pending"
    /\ eval.arg.examined < DefaultUsernameAttempts
    /\ \E h \in TokenHex3 :
         eval' = [eval EXCEPT
                    !.arg = [examined |-> @.examined + 1,
                             candidate |-> UserPrefix \o h],
                    !.out = IF CandidateFree(users, UserPrefix \o h)
                            THEN "returned" ELSE "pending"]
    /\ UNCHANGED <<users, now, hist, calls, records>>

\* line 78: the loop ran out
GiveUp ==
    /\ eval.fn = "_generate_default_username"
    /\ eval.out = "pending"
    /\ eval.arg.examined = DefaultUsernameAttempts
    /\ eval' = [eval EXCEPT !.out = AllocationExhausted]
    /\ UNCHANGED <<users, now, hist, calls, records>>

\* lines 148-174: one call, whatever suffix secrets.token_hex(2) yields
DeriveUsername ==
    /\ eval.fn = "_derive_username_from_name"
    /\ eval.out = "pending"
    /\ \E d \in _derive_username_from_name(users, eval.arg.name) :
         eval' = [eval EXCEPT !.arg.value = d, !.out = "returned"]
    /\ UNCHANGED <<users, now, hist, calls, records>>

NextAllocator ==
    \/ TryCandidate
    \/ GiveUp
    \/ DeriveUsername

SpecAllocator == InitAllocator /\ [][NextAllocator]_vars

HexChars == DigitChars \cup {"a", "b", "c", "d", "e", "f"}

(* C23: _generate_default_username examines at most 20 candidates, each   *)
(* of the form user_ followed by 6 hex characters; the name it returns is  *)
(* used by no account; and it raises the allocation error only after 20    *)
(* candidates have collided, never returning a colliding name.             *)
C23_DefaultUsernameBounded ==
    eval.fn = "_generate_default_username"
    => LET c == eval.arg.candidate
       IN  /\ eval.arg.examined <= 20
           /\ eval.arg.examined > 0
                => /\ Len(c) = 11
                   /\ SubSeq(c, 1, 5) = <<"u","s","e","r","_">>
                   /\ \A i \in 6..11 : c[i] \in HexChars
           /\ eval.out = "returned"
                => /\ \A u \in users : u.username # c
                   /\ [ok |-> TRUE, name |-> c]
                        \in _generate_default_username(users)
           /\ eval.out = AllocationExhausted
                => /\ eval.arg.examined = 20
                   /\ \E u \in users : u.username = c
                   /\ [ok |-> FALSE, name |-> None]
                        \in _generate_default_username(users)
           /\ (eval.out = "pending" /\ eval.arg.examined > 0)
                => \E u \in users : u.username = c

\* the loop ran out after 20 collisions
C23_Witness ==
    /\ eval.fn = "_generate_default_username"
    /\ eval.out = AllocationExhausted
    /\ eval.arg.examined = 20

\* the name with runs of other characters turned into "_" and trimmed, cut
\* to 30 characters; and its suffixed form, the base cut to 25
Normalized(name) ==
    LET cleaned == strip_chars(SubNonAlnum(strip(name)), {"_"})
    IN  SubSeq(cleaned, 1, IF Len(cleaned) > 30 THEN 30 ELSE Len(cleaned))
Suffixed(cand, h) ==
    SubSeq(cand, 1, IF Len(cand) > 25 THEN 25 ELSE Len(cand)) \o <<"_">> \o h
WellFormed(s) ==
    /\ Len(s) \in 3..30
    /\ \A i \in 1..Len(s) :
         s[i] \in UpperChars \cup LowerChars \cup DigitChars \cup {"_"}

(* C24: _derive_username_from_name returns none or a username of 3 to 30  *)
(* characters over letters, digits and "_" that no account uses; a free    *)
(* normalized name is returned as it is; when the normalized name is taken *)
(* the result is one suffixed candidate (the base cut so the whole is at   *)
(* most 30 characters), or none when that candidate is taken too.          *)
C24_DerivedUsernameIsFreeAndValid ==
    (eval.fn = "_derive_username_from_name" /\ eval.out = "returned")
    => LET v == eval.arg.value
           cand == Normalized(eval.arg.name)
           taken(n) == \E u \in users : u.username = n
       IN  /\ v # None => WellFormed(v) /\ ~taken(v)
           /\ ~WellFormed(cand) => v = None
           /\ (WellFormed(cand) /\ ~taken(cand)) => v = cand
           /\ (WellFormed(cand) /\ taken(cand))
                => \E h \in TokenHex2 :
                     /\ Len(Suffixed(cand, h)) <= 30
                     /\ \/ v = Suffixed(cand, h) /\ ~taken(Suffixed(cand, h))
                        \/ v = None /\ taken(Suffixed(cand, h))

\* a display name of 31 characters whose 30-character form is taken came
\* back with the base cut to 25 characters and a suffix, the other suffix
\* being taken
C24_Witness ==
    /\ eval.fn = "_derive_username_from_name"
    /\ eval.out = "returned"
    /\ Len(eval.arg.name) = 31
    /\ Len(eval.arg.value) = 30
    /\ eval.arg.value[26] = "_"
    /\ Cardinality(users) = 2

---------------------------------------------------------------------------
(* Access tokens (core/security.py) and the verification gate              *)
(* (dependencies/auth.py) in front of the protected endpoints              *)
(* (api/protected/orientations.py, results.py).  A JWT is modelled by its  *)
(* claims and the key that signed it.                                      *)

create_access_token(subject, t) ==
    [sub |-> subject, iat |-> t, exp |-> t + AccessLifetime,
     key |-> jwt_secret_key]

\* a request without an Authorization header
NoBearer == [sub |-> 0, iat |-> 0, exp |-> 0, key |-> None]

\* jwt.decode: signature, then expiry (python-jose rejects exp < now)
decode_token(token, t) ==
    IF token.key # jwt_secret_key THEN "Invalid token"
    ELSE IF token.exp < t THEN "Invalid token"
    ELSE "ok"

\* [res, id]: "ok" and the id of the account, or the detail of the 401
get_current_user(us, t, creds) ==
    IF creds = NoBearer THEN [res |-> "Not authenticated", id |-> 0]
    ELSE IF decode_token(creds, t) # "ok"
        THEN [res |-> "Invalid token", id |-> 0]
    ELSE IF creds.sub = 0 THEN [res |-> "Invalid token", id |-> 0]
    ELSE IF {u \in us : u.id = creds.sub} = {}
        THEN [res |-> "User not found", id |-> 0]
    ELSE [res |-> "ok", id |-> creds.sub]

NotVerified == "Please verify your email before starting orientation."

\* a gate that stops at authentication
get_verified_user_SkipsFlag(us, t, creds) == get_current_user(us, t, creds)

get_verified_user(us, t, creds) ==
    LET current_user == get_current_user(us, t, creds)
    IN  IF current_user.res # "ok" THEN current_user
        ELSE IF ~RowById(us, current_user.id).is_verified
        THEN [res |-> NotVerified, id |-> 0]
        ELSE current_user

\* POST /orientations and POST /results: [res, records]
create_record(table, us, recs, t, creds) ==
    LET current_user == get_verified_user(us, t, creds)
    IN  IF current_user.res # "ok"
        THEN [res |-> current_user.res, records |-> recs]
        ELSE [res |-> "ok",
              records |-> recs \cup {[table |-> table,
                                      id |-> Cardinality(recs) + 1,
                                      user_id |-> current_user.id,
                                      created_at |-> t]}]

create_orientation(us, recs, t, creds) ==
    create_record("orientations", us, recs, t, creds)
create_result(us, recs, t, creds) ==
    create_record("results", us, recs, t, creds)

\* GET /orientations/me and GET /results/me: [res, items]
list_my_records(table, us, recs, t, creds) ==
    LET current_user == get_verified_user(us, t, creds)
    IN  IF current_user.res # "ok"
        THEN [res |-> current_user.res, items |-> {}]
        ELSE [res |-> "ok",
              items |-> {r \in recs : /\ r.table = table
                                      /\ r.user_id = current_user.id}]

list_my_orientations(us, recs, t, creds) ==
    list_my_records("orientations", us, recs, t, creds)
list_my_results(us, recs, t, creds) ==
    list_my_records("results", us, recs, t, creds)

\* POST /auth/login: the bearer token handed out, NoBearer on a 401
login_session(us, t, email, password) ==
    {IF out.res = "ok"
     THEN create_access_token((CHOOSE u \in ByEmail(us, lower(email)) : TRUE).id,
                              t)
     ELSE NoBearer
     : out \in api_login(us, email, password)}

(* SpecGate: one account registers, verifies and signs in from several     *)
(* clients, which call the protected endpoints with the bearer they hold   *)
(* or with one they made up.                                               *)

\* bearers nobody was handed: signed with another key, and well signed but
\* naming no account
ForgedBearer ==
    [sub |-> 1, iat |-> 0, exp |-> AccessLifetime + 1, key |-> <<"k">>]
OrphanBearer == create_access_token(MaxUsers + 2, 0)

BearerInputs ==
    {NoBearer, ForgedBearer, OrphanBearer}
    \cup {calls[p].bearer : p \in {q \in Procs : calls[q].pc = "session"}}

GateInstants == {0, Cooldown, AccessLifetime, AccessLifetime + 1}

LoginSession(p, email, password) ==
    /\ calls[p].pc = "idle"
    /\ \E bearer \in login_session(users, now, email, password) :
         calls' = IF bearer # NoBearer
                  THEN [calls EXCEPT ![p] =
                          [pc |-> "session", bearer |-> bearer]]
                  ELSE calls
    /\ UNCHANGED <<users, now, hist, eval, records>>

CreateOrientation(creds) ==
    /\ LET out == create_orientation(users, records, now, creds)
       IN  /\ Cardinality(out.records) <= MaxRecords
           /\ records' = out.records
    /\ UNCHANGED <<users, now, hist, calls, eval>>

CreateResult(creds) ==
    /\ LET out == create_result(users, records, now, creds)
       IN  /\ Cardinality(out.records) <= MaxRecords
           /\ records' = out.records
    /\ UNCHANGED <<users, now, hist, calls, eval>>

ListMyOrientations(creds) ==
    /\ list_my_orientations(users, records, now, creds).res # "pending"
    /\ UNCHANGED vars

ListMyResults(creds) ==
    /\ list_my_results(users, records, now, creds).res # "pending"
    /\ UNCHANGED vars

NextGate ==
    \/ \E e \in OneEmail : Register(e, StrongPassword1, None)
    \/ \E t \in TokenInputs : VerifyEmail(t)
    \/ \E p \in Procs, e \in OneEmail, w \in PasswordInputs :
         LoginSession(p, e, w)
    \/ \E b \in BearerInputs : CreateOrientation(b)
    \/ \E b \in BearerInputs : CreateResult(b)
    \/ \E b \in BearerInputs : ListMyOrientations(b)
    \/ \E b \in BearerInputs : ListMyResults(b)
    \/ Tick(GateInstants)

SpecGate == Init /\ [][NextGate]_vars

(* C25: the gate admits a request only when its bearer token is signed     *)
(* with the key and not expired, its subject is an existing account and    *)
(* that account is verified at the time of the request; so no orientation  *)
(* or result row exists or is listed for an account not verified at that   *)
(* moment; and a token issued before the account was verified is admitted  *)
(* once it is verified.                                                    *)
C25_GateAdmitsOnlyVerified ==
    /\ \A b \in BearerInputs :
         LET verified == /\ b.key = jwt_secret_key
                         /\ now <= b.exp
                         /\ \E u \in users : u.id = b.sub /\ u.is_verified
         IN  /\ get_verified_user(users, now, b).res = "ok" <=> verified
             /\ ~verified
                  => /\ create_orientation(users, records, now, b).records
                          = records
                     /\ create_result(users, records, now, b).records
                          = records
                     /\ list_my_orientations(users, records, now, b).items
                          = {}
                     /\ list_my_results(users, records, now, b).items = {}
    /\ \A r \in records :
         \E u \in users :
           /\ u.id = r.user_id
           /\ u.is_verified
           /\ u.verified_at <= r.created_at
    /\ \A p \in Procs :
         calls[p].pc = "session"
         => \A u \in users :
              (/\ u.id = calls[p].bearer.sub
               /\ u.is_verified
               /\ calls[p].bearer.iat < u.verified_at
               /\ now <= calls[p].bearer.exp)
              => get_verified_user(users, now, calls[p].bearer).res = "ok"

\* a client signed in before the account was verified, and with the token
\* it got then has an orientation and a result to its name
C25_Witness ==
    \E p \in Procs :
      /\ calls[p].pc = "session"
      /\ \E u \in users :
           /\ u.id = calls[p].bearer.sub
           /\ calls[p].bearer.iat < u.verified_at
      /\ \A q \in Procs : calls[q].pc = "session" => q = p
      /\ {r.table : r \in records} = {"orientations", "results"}

---------------------------------------------------------------------------
\* the columns of table "users" that the flows read or write (created_at
\* and updated_at are set by the database and read by none of them)
UserColumns ==
    {"id", "username", "email", "password_hash", "auth_provider",
     "is_verified", "verified_at", "email_verification_token_hash",
     "email_verification_expires_at", "password_reset_token_hash",
     "password_reset_expires_at", "password_reset_requested_at"}

(* C26: a successful register adds exactly one account and changes no     *)
(* other: auth_provider password, not verified, verified_at null, a        *)
(* password credential that verifies the password given, no reset-token    *)
(* state, the verification hash equal to the keyed hash of the raw token   *)
(* returned, the expiry equal to now plus the configured hours, and as     *)
(* username the one supplied, trimmed, or a generated default; the raw     *)
(* token is stored in no column.                                           *)
C26_RegisterCreatesPendingAccount ==
    \A e \in EmailInputs, p \in PasswordInputs, n \in UsernameInputs :
      \A out \in api_register(users, now, e, p, n, NextToken) :
        out.res = "ok"
        => /\ users \subseteq out.users
           /\ Cardinality(out.users \ users) = 1
           /\ out.ret = NextToken
           /\ \A u \in out.users \ users :
                /\ DOMAIN u = UserColumns
                /\ u.email = lower(e)
                /\ u.auth_provider = "password"
                /\ u.is_verified = FALSE
                /\ u.verified_at = NullTime
                /\ u.password_hash # None
                /\ verify_password(p, u.password_hash)
                /\ u.password_reset_token_hash = None
                /\ u.password_reset_expires_at = NullTime
                /\ u.password_reset_requested_at = NullTime
                /\ u.email_verification_token_hash
                     = hash_email_verification_token(out.ret)
                /\ u.email_verification_expires_at
                     = now + email_verification_token_hours * 3600
                /\ strip(n) # None => u.username = strip(n)
                /\ strip(n) = None
                     => /\ Len(u.username) = 11
                        /\ SubSeq(u.username, 1, 5) = <<"u","s","e","r","_">>

\* an account registered after time 0 under the name supplied, trimmed,
\* still pending, beside another account
C26_Witness ==
    \E v \in hist.vIssued :
      LET u == RowById(users, v.id)
      IN  /\ v.at > 0
          /\ u.username = <<"b","o","b">>
          /\ u.email_verification_token_hash
               = hash_email_verification_token(v.tok)
          /\ u.email_verification_expires_at = v.at + VerificationLifetime
          /\ Cardinality(users) = 2

---------------------------------------------------------------------------
(* SpecFlowRace: reset_password and login_with_google calls running        *)
(* concurrently, each in its own session (db/session.py: no autoflush, no  *)
(* row lock, no version column).  A call first reads the row and runs its  *)
(* checks, and later commits; the UPDATE of the commit sets the columns    *)
(* the call assigned a new value to and leaves the others as they are in   *)
(* the table by then.  The clock stands still.                             *)

\* session.commit() of `edited`, loaded as `loaded`: the columns whose value
\* changed, and those in `fresh` (assigned a value never stored before)
CommitChanges(us, loaded, edited, fresh) ==
    LET current == RowById(us, loaded.id)
    IN  Update(us, [c \in DOMAIN current |->
                      IF c \in fresh \/ edited[c] # loaded[c]
                      THEN edited[c] ELSE current[c]])

\* lines 254-275: validation, lookup and checks
ResetRead(p, token, new_password) ==
    /\ calls[p].pc = "idle"
    /\ validate_password_strength(new_password) = "ok"
    /\ \E user \in ByResetHash(users, hash_password_reset_token(token)) :
         /\ reset_password_check(user, now) = "ok"
         /\ calls' = [calls EXCEPT ![p] =
                        [pc |-> "reset_checked", token |-> token,
                         new_password |-> new_password, user |-> user,
                         at |-> now]]
    /\ UNCHANGED <<users, now, hist, eval, records>>

\* lines 277-292: the edits and the commit; bcrypt salts the hash afresh
ResetCommit(p) ==
    /\ calls[p].pc = "reset_checked"
    /\ users' = CommitChanges(users, calls[p].user,
                    reset_password_verify(
                        reset_password_store(calls[p].user,
                                             calls[p].new_password),
                        calls[p].at),
                    {"password_hash"})
    /\ calls' = [calls EXCEPT ![p].pc = "reset_done"]
    /\ hist' = [hist EXCEPT !.rUsed = @ \cup {calls[p].token}]
    /\ UNCHANGED <<now, eval, records>>

\* lines 89-96 and 119-141 for an email that has an account: the row is
\* read and edited
GoogleRead(p, id_token) ==
    /\ calls[p].pc = "idle"
    /\ LET v == verify_google_id_token(id_token)
       IN  /\ v.res = "ok"
           /\ v.claims.email_verified # "False"
           /\ \E user \in ByEmail(users, v.claims.email) :
                \E out \in google_link(users, now, v.claims, user) :
                  /\ out.res = "ok"
                  /\ calls' = [calls EXCEPT ![p] =
                                 [pc |-> "google_linking", user |-> user,
                                  edited |-> RowById(out.users, user.id)]]
    /\ UNCHANGED <<users, now, hist, eval, records>>

\* lines 143-146
GoogleCommit(p) ==
    /\ calls[p].pc = "google_linking"
    /\ users' = CommitChanges(users, calls[p].user, calls[p].edited, {})
    /\ calls' = [calls EXCEPT ![p].pc = "google_done"]
    /\ UNCHANGED <<now, hist, eval, records>>

NextFlowRace ==
    \/ \E e \in OneEmail : Register(e, StrongPassword1, None)
    \/ \E e \in OneEmail : RequestPasswordReset(e)
    \/ \E e \in OneEmail, w \in PasswordInputs : Login(e, w)
    \/ \E p \in Procs, t \in TokenInputs, w \in PasswordInputs :
         ResetRead(p, t, w)
    \/ \E p \in Procs : ResetCommit(p)
    \/ \E p \in Procs, g \in GoogleInputs({<<"A","@","x">>}) :
         GoogleRead(p, g)
    \/ \E p \in Procs : GoogleCommit(p)

SpecFlowRace == Init /\ [][NextFlowRace]_vars

(* C27: of two reset_password calls presenting the same raw token, token   *)
(* lookup and commit being separate steps, at most one succeeds.           *)
C27_ResetTokenConsumedOnce ==
    \A p, q \in Procs :
      (/\ p # q
       /\ calls[p].pc = "reset_done"
       /\ calls[q].pc = "reset_done")
      => calls[p].token # calls[q].token

\* two calls hold the same token, both past their checks, neither committed
C27_Witness ==
    \E p, q \in Procs :
      /\ p # q
      /\ calls[p].pc = "reset_checked"
      /\ calls[q].pc = "reset_checked"
      /\ calls[p].token = calls[q].token
      /\ calls[p].new_password # calls[q].new_password

(* C28: under every interleaving of a reset_password call and a            *)
(* login_with_google call for the same account, each committing only the   *)
(* columns it changed, no account has auth_provider google together with   *)
(* a password credential, and password login on its email fails once the   *)
(* Google link has committed.                                              *)
C28_NoPasswordOnGoogleAccount ==
    /\ \A u \in users :
         u.auth_provider = "google" => u.password_hash = None
    /\ \A p \in Procs :
         calls[p].pc = "google_done"
         => \A e \in OneEmail, w \in PasswordInputs :
              lower(e) = calls[p].user.email
              => \A out \in api_login(users, e, w) :
                   out.res = InvalidCredentials

\* a reset_password call and a login_with_google call have both read the
\* same password account and neither has committed
C28_Witness ==
    \E p, q \in Procs :
      /\ calls[p].pc = "reset_checked"
      /\ calls[q].pc = "google_linking"
      /\ calls[p].user = calls[q].user
      /\ calls[p].user.auth_provider = "password"

(* C29: once request_password_reset has issued a newer token to an        *)
(* account, every earlier raw token of that account fails in              *)
(* reset_password, whatever the new password, and changes nothing; of the *)
(* raw reset tokens issued to one account at most one can be consumed at  *)
(* any time, and it is the one issued last.                               *)
C29_OnlyLatestResetTokenWorks ==
    /\ \A r \in hist.rIssued :
         ~IsLatestReset(r)
         => \A p \in PasswordInputs :
              \A out \in reset_password(users, now, r.tok, p) :
                out.res # "ok" /\ out.users = users
    /\ \A r \in hist.rIssued, p \in PasswordInputs :
         (\E out \in reset_password(users, now, r.tok, p) : out.res = "ok")
         => IsLatestReset(r)

\* two tokens were issued to one account, neither was consumed, the earlier
\* one is still within its own lifetime, and the later one can be consumed
C29_Witness ==
    \E r1 \in hist.rIssued :
      \E r2 \in ResetsOf(r1.id) :
        /\ r1.tok < r2.tok
        /\ IsLatestReset(r2)
        /\ {r1.tok, r2.tok} \cap hist.rUsed = {}
        /\ now <= r1.at + ResetLifetime
        /\ \E out \in reset_password(users, now, r2.tok, StrongPassword2) :
             out.res = "ok"

(* C30: reset_password called with a new password that violates the       *)
(* policy fails with the policy's message whatever the token, known or    *)
(* not, and leaves every account as it was; the same token presented      *)
(* afterwards with a valid password, at any instant up to its expiry,     *)
(* is consumed and the password is replaced.                              *)
C30_PolicyCheckedBeforeTokenLookup ==
    \A tok \in TokenInputs, p \in PasswordInputs :
      validate_password_strength(p) # "ok"
      => \A out \in reset_password(users, now, tok, p) :
           /\ out.res = validate_password_strength(p)
           /\ out.users = users
           /\ \A r \in hist.rIssued, q \in PasswordInputs, t \in Instants :
                (/\ r.tok = tok
                 /\ validate_password_strength(q) = "ok"
                 /\ RowById(users, r.id).password_reset_token_hash
                      = hash_password_reset_token(tok)
                 /\ now <= t
                 /\ t <= r.at + ResetLifetime)
                => \A later \in reset_password(out.users, t, tok, q) :
                     /\ later.res = "ok"
                     /\ RowById(later.users, r.id).password_hash
                          = hash_password(q)
                     /\ RowById(later.users, r.id).password_reset_token_hash
                          = None

\* a reset token is pending and unexpired, so a call presenting it with a
\* weak password reaches the policy check with a token that would be found
C30_Witness ==
    \E r \in hist.rIssued :
      /\ r.tok \notin hist.rUsed
      /\ RowById(users, r.id).password_reset_token_hash
           = hash_password_reset_token(r.tok)
      /\ now <= r.at + ResetLifetime
      /\ \E out \in reset_password(users, now, r.tok, WeakPassword) :
           out.res # "ok"
      /\ \E out \in reset_password(users, now, r.tok, StrongPassword2) :
           out.res = "ok"

(* C31: with requests served one at a time, every account whose           *)
(* is_verified is true has no email-verification hash and no              *)
(* verification expiry: verify_email, the implicit verification of        *)
(* reset_password and login_with_google each clear the pending            *)
(* verification token when they set the flag.                             *)
C31_VerifiedHoldsNoVerificationToken ==
    \A u \in users :
      u.is_verified
      => /\ u.email_verification_token_hash = None
         /\ u.email_verification_expires_at = NullTime

\* an account was verified by reset_password while the verification token
\* register issued to it had never been consumed
C31_Witness ==
    \E u \in users :
      /\ u.is_verified
      /\ u.auth_provider = "password"
      /\ \E v \in hist.vIssued : v.id = u.id /\ v.tok \notin hist.vUsed
      /\ \E r \in ResetsOf(u.id) : r.tok \in hist.rUsed

(* C32: token purposes are isolated.  A raw token that register issued    *)
(* for email verification never succeeds in reset_password, whatever the  *)
(* new password, and a raw token that request_password_reset issued never *)
(* succeeds in verify_email; either call leaves every account as it was.  *)
(* Both per-purpose secrets are unset here, so both digests are keyed by  *)
(* the JWT secret.                                                        *)
C32_TokenPurposesIsolated ==
    /\ \A v \in hist.vIssued, p \in PasswordInputs :
         \A out \in reset_password(users, now, v.tok, p) :
           out.res # "ok" /\ out.users = users
    /\ \A r \in hist.rIssued :
         \A out \in verify_email(users, now, r.tok) :
           out.res # "ok" /\ out.users = users

\* one account holds a pending verification token and a pending reset
\* token, either of which would succeed in its own flow, and the two
\* digest functions agree on both raw tokens
C32_Witness ==
    \E v \in hist.vIssued :
      \E r \in ResetsOf(v.id) :
        /\ hash_email_verification_token(v.tok)
             = hash_password_reset_token(v.tok)
        /\ hash_email_verification_token(r.tok)
             = hash_password_reset_token(r.tok)
        /\ \E out \in verify_email(users, now, v.tok) : out.res = "ok"
        /\ \E out \in reset_password(users, now, r.tok, StrongPassword2) :
             out.res = "ok"

=============================================================================
